---- MODULE Spec2Model ----
(***************************************************************************)
(* A model of script.js, the controller of the TikTok downloader page:     *)
(* URL validation, the cancellable lookup of handleDownload and            *)
(* fetchTikTokData, the normalisation of the lookup response, the          *)
(* rendering of displayResult and the download of downloadMedia.           *)
(*                                                                         *)
(* The page is single threaded.  One action of the model is one task of    *)
(* the event loop: an event handler run up to its first await, or the      *)
(* continuation of an await run to its end.  The continuation of an        *)
(* aborted fetch is a microtask: while one is queued no other task runs.   *)
(***************************************************************************)
EXTENDS Integers, Sequences, FiniteSets, TLC

(***************************************************************************)
(* Bounds of the model.                                                    *)
(***************************************************************************)
\* lookups handleDownload may start in one behaviour
MaxLookups == 3
\* downloads downloadMedia may start in one behaviour
MaxDownloads == 1
\* timers of handlePaste that may be set and not yet fired or cleared
MaxTimers == 2
\* calls of copyToClipboard that may be started in one behaviour
MaxCopies == 1

(***************************************************************************)
(* JavaScript values.  A value is a record [t, s]: t is the type and s a   *)
(* sequence, the symbols of a string or the elements of an array.  A       *)
(* string the code inspects (the URL input, the author) is spelled one     *)
(* character per symbol; an opaque text (a message, a media URL) is one    *)
(* symbol.                                                                 *)
(***************************************************************************)
Undefined == [t |-> "undefined", s |-> <<>>]
Null == [t |-> "null", s |-> <<>>]
Str(chars) == [t |-> "string", s |-> chars]
Arr(items) == [t |-> "array", s |-> items]
Bool(b) == [t |-> "boolean", s |-> IF b THEN <<"true">> ELSE <<"false">>]

\* ToBoolean: undefined, null, "" and false are falsy; an array is truthy
Truthy(v) ==
    \/ v.t = "string" /\ v.s # <<>>
    \/ v.t = "array"
    \/ v.t = "boolean" /\ v.s = <<"true">>

\* a || b
Or(a, b) == IF Truthy(a) THEN a ELSE b

\* a && b
And(a, b) == IF Truthy(a) THEN b ELSE a

\* String.prototype.startsWith with a one character prefix
StartsWith(v, c) == Len(v.s) > 0 /\ v.s[1] = c

(***************************************************************************)
(* Regular expressions of isValidTikTokUrl.  A pattern is a sequence of    *)
(* atoms: a literal text, cls+ (one or more characters of a class) or      *)
(* cls* (zero or more).  RegExp.prototype.test searches the pattern at     *)
(* every start position; the patterns are not anchored.                    *)
(***************************************************************************)
Digits == {"0", "1", "2", "3", "4", "5", "6", "7", "8", "9"}
Letters ==
    {"a", "b", "c", "d", "e", "f", "g", "h", "i", "j", "k", "l", "m",
     "n", "o", "p", "q", "r", "s", "t", "u", "v", "w", "x", "y", "z",
     "A", "B", "Z"}
\* \w
WordChars == Letters \cup Digits \cup {"_"}

InClass(c, cls) ==
    CASE cls = "\\d" -> c \in Digits
      [] cls = "[\\w-]" -> c \in WordChars \cup {"-"}
      [] cls = "[\\w.-]" -> c \in WordChars \cup {".", "-"}
      [] cls = "." -> c # "\n"

Lit(chars) == [k |-> "lit", cs |-> chars, cls |-> ""]
Plus(cls) == [k |-> "plus", cs |-> <<>>, cls |-> cls]
Star(cls) == [k |-> "star", cs |-> <<>>, cls |-> cls]

\* the literal cs stands in s at position i
HasAt(s, i, cs) ==
    /\ i + Len(cs) - 1 <= Len(s)
    /\ \A j \in 1..Len(cs) : s[i + j - 1] = cs[j]

\* the length of the longest run of characters of cls in s from position i
RECURSIVE Run(_, _, _)
Run(s, i, cls) ==
    IF i <= Len(s) /\ InClass(s[i], cls) THEN 1 + Run(s, i + 1, cls) ELSE 0

\* atoms k.. of p match s from position i (with backtracking)
RECURSIVE MatchAt(_, _, _, _)
MatchAt(p, k, s, i) ==
    IF k > Len(p) THEN TRUE
    ELSE LET a == p[k] IN
         CASE a.k = "lit" ->
                HasAt(s, i, a.cs) /\ MatchAt(p, k + 1, s, i + Len(a.cs))
           [] a.k = "plus" ->
                \E n \in 1..Run(s, i, a.cls) : MatchAt(p, k + 1, s, i + n)
           [] a.k = "star" ->
                \E n \in 0..Run(s, i, a.cls) : MatchAt(p, k + 1, s, i + n)

\* pattern.test(url)
Test(p, s) == \E i \in 1..(Len(s) + 1) : MatchAt(p, 1, s, i)

TikTokCom == <<"t", "i", "k", "t", "o", "k", ".", "c", "o", "m", "/">>
VideoSeg == <<"/", "v", "i", "d", "e", "o", "/">>
PhotoSeg == <<"/", "p", "h", "o", "t", "o", "/">>

patterns ==
    << <<Lit(TikTokCom \o <<"@">>), Plus("[\\w.-]"), Lit(VideoSeg), Plus("\\d")>>,
       <<Lit(TikTokCom), Star("."), Lit(VideoSeg), Plus("\\d")>>,
       <<Lit(TikTokCom \o <<"@">>), Plus("[\\w.-]"), Lit(PhotoSeg), Plus("\\d")>>,
       <<Lit(TikTokCom), Star("."), Lit(PhotoSeg), Plus("\\d")>>,
       <<Lit(<<"v", "m", ".">> \o TikTokCom), Plus("[\\w-]")>>,
       <<Lit(<<"v", "t", ".">> \o TikTokCom), Plus("[\\w-]")>>,
       <<Lit(TikTokCom \o <<"t", "/">>), Plus("[\\w-]")>> >>

\* url is the character sequence of a string
isValidTikTokUrl(url) == \E n \in 1..Len(patterns) : Test(patterns[n], url)

\* String.prototype.trim: white space is dropped at both ends
WhiteSpace == {" ", "\t", "\n"}
RECURSIVE TrimStart(_)
TrimStart(s) ==
    IF s # <<>> /\ Head(s) \in WhiteSpace THEN TrimStart(Tail(s)) ELSE s
RECURSIVE TrimEnd(_)
TrimEnd(s) ==
    IF s # <<>> /\ s[Len(s)] \in WhiteSpace
    THEN TrimEnd(SubSeq(s, 1, Len(s) - 1)) ELSE s
Trim(s) == TrimEnd(TrimStart(s))

(***************************************************************************)
(* Messages of the program.                                                *)
(***************************************************************************)
MsgEnterUrl == Str(<<"Please enter a TikTok URL">>)
MsgInvalidUrl == Str(<<"Please enter a valid TikTok URL">>)
MsgHttpFailed == Str(<<"Failed to fetch content data">>)
MsgApiFailed == Str(<<"Failed to fetch content">>)
MsgUnableToFetch ==
    Str(<<"Unable to fetch content. Please check the URL and try again.">>)
MsgErrorOccurred == Str(<<"An error occurred. Please try again.">>)
MsgStartingDownload == Str(<<"Starting download...">>)
MsgDownloadStarted == Str(<<"Download started!">>)
MsgDownloadFailed == Str(<<"Download failed">>)
MsgIOSLongPress == Str(<<"iOS: Please long press to save">>)
MsgLinkCopied == Str(<<"Link copied to clipboard!">>)
MsgCopyFailed == Str(<<"Failed to copy link">>)
MsgCopied == Str(<<"Copied!">>)
\* stands for the text the page gives the label of the copy button
CopyLabel == Str(<<"Copy">>)

\* new Error(message); errors of the platform carry their own name
Error(name, message) == [name |-> name, message |-> message]
NewError(message) == Error("Error", message)

(***************************************************************************)
(* The lookup API.  A JSON body is { code, msg, data }; data holds title,  *)
(* author { unique_id, nickname }, cover, origin_cover, images, hdplay,    *)
(* play, wmplay and duration.  hasData and author.has tell whether the     *)
(* object is there at all.                                                 *)
(***************************************************************************)
Author(uid, nick) == [has |-> TRUE, unique_id |-> uid, nickname |-> nick]
NoAuthor == [has |-> FALSE, unique_id |-> Undefined, nickname |-> Undefined]

Data(title, author, images, hd, pl, wm) ==
    [title |-> title, author |-> author, cover |-> Str(<<"cover">>),
     origin_cover |-> Str(<<"origin_cover">>), images |-> images,
     hdplay |-> hd, play |-> pl, wmplay |-> wm, duration |-> Str(<<"15">>)]

EmptyData == Data(Undefined, NoAuthor, Undefined, Undefined, Undefined, Undefined)

Body(code, msg, hasData, data) ==
    [code |-> code, msg |-> msg, hasData |-> hasData, data |-> data]

\* what the network hands to fetchTikTokData
NetworkError == Error("TypeError", Str(<<"Failed to fetch">>))
AbortError == Error("AbortError", Str(<<"The user aborted a request.">>))
JsonSyntaxError == Error("SyntaxError", Str(<<"Unexpected token < in JSON">>))
NotAllowedError == Error("NotAllowedError", Str(<<"Write permission denied.">>))
NoDataTypeError ==
    Error("TypeError", Str(<<"Cannot read properties of undefined">>))

FetchRejected(error) ==
    [kind |-> "fetchRejected", error |-> error, body |-> Body(0, Undefined, FALSE, EmptyData)]
HttpNotOk ==
    [kind |-> "httpNotOk", error |-> NewError(MsgHttpFailed), body |-> Body(0, Undefined, FALSE, EmptyData)]
JsonRejected(error) ==
    [kind |-> "jsonRejected", error |-> error, body |-> Body(0, Undefined, FALSE, EmptyData)]
JsonBody(body) ==
    [kind |-> "json", error |-> NewError(Undefined), body |-> body]

(***************************************************************************)
(* fetchTikTokData: the normalisation of a successful response.            *)
(***************************************************************************)
\* result.data.images && result.data.images.length > 0
isPhotoOf(data) == And(data.images, Bool(Len(data.images.s) > 0))

\* isPhoto ? null : (hdplay || play || wmplay)
videoUrlIgnoringPhoto(data) == Or(Or(data.hdplay, data.play), data.wmplay)
videoUrlPlayFirst(data) ==
    IF Truthy(isPhotoOf(data)) THEN Null
    ELSE Or(Or(data.play, data.hdplay), data.wmplay)
videoUrlOf(data) ==
    IF Truthy(isPhotoOf(data)) THEN Null
    ELSE Or(Or(data.hdplay, data.play), data.wmplay)

\* isPhoto ? result.data.images : null
imagesOf(data) == IF Truthy(isPhotoOf(data)) THEN data.images ELSE Null

\* author?.unique_id || author?.nickname || '@tiktok'
authorOf(data) ==
    Or(Or(IF data.author.has THEN data.author.unique_id ELSE Undefined,
          IF data.author.has THEN data.author.nickname ELSE Undefined),
       Str(<<"@", "t", "i", "k", "t", "o", "k">>))

Normalize(data) ==
    [title |-> Or(data.title, Str(<<"TikTok Content">>)),
     author |-> authorOf(data),
     thumbnail |-> Or(data.cover, data.origin_cover),
     videoUrl |-> videoUrlOf(data),
     images |-> imagesOf(data),
     isPhoto |-> isPhotoOf(data),
     duration |-> data.duration]

(***************************************************************************)
(* fetchTikTokData: the try block and its catch.  TryBlock gives what the  *)
(* try block returns or throws for a network event; Rethrow is the error   *)
(* the catch block throws in place of the caught one.                      *)
(***************************************************************************)
Returned(value) == [thrown |-> FALSE, value |-> value, error |-> NewError(Undefined)]
Thrown(error) == [thrown |-> TRUE, value |-> Normalize(EmptyData), error |-> error]

TryBlock(ev) ==
    CASE ev.kind = "fetchRejected" -> Thrown(ev.error)
      [] ev.kind = "httpNotOk" -> Thrown(NewError(MsgHttpFailed))
      [] ev.kind = "jsonRejected" -> Thrown(ev.error)
      [] ev.kind = "json" ->
            IF ev.body.code # 0 THEN Thrown(NewError(Or(ev.body.msg, MsgApiFailed)))
            ELSE IF ~ev.body.hasData THEN Thrown(NoDataTypeError)
            ELSE Returned(Normalize(ev.body.data))

RethrowCaught(error) == error
Rethrow(error) == NewError(MsgUnableToFetch)

\* the settlement of the promise fetchTikTokData returns
fetchTikTokData(ev) ==
    LET r == TryBlock(ev) IN
    IF r.thrown THEN Thrown(Rethrow(r.error)) ELSE r

(***************************************************************************)
(* displayResult: the author text.                                         *)
(***************************************************************************)
AuthorTextAlwaysPrefixed(data) == Str(<<"@">> \o Or(data.author, Str(<<"t", "i", "k", "t", "o", "k">>)).s)
AuthorText(data) ==
    LET author == Or(data.author, Str(<<"t", "i", "k", "t", "o", "k">>)) IN
    IF StartsWith(author, "@") THEN author ELSE Str(<<"@">> \o author.s)

(***************************************************************************)
(* The state of the page.                                                  *)
(***************************************************************************)
VARIABLES
    elements,          \* the DOM elements the controller reads and writes
    toast,             \* the toast: message, error class, active class
    toastTimer,        \* TRUE while the 3 s timer of showToast is pending
    currentVideoData,  \* the module variable: Null or a normalised result
    abortController,   \* the module variable: 0 (null) or the lookup whose
                       \* AbortController it holds
    debounceTimer,     \* the module variable: 0 (null) or the identifier of
                       \* the timer the latest handlePaste has set
    timers,            \* the timers of handlePaste: whether each is waiting
                       \* for its delay, due or has fired, and its paste
    requests,          \* the stage of every lookup started so far
    result,            \* history: Null or the body the latest response.json()
                       \* resolved with (the local result of fetchTikTokData)
    console,           \* the console.error calls of the latest task
    isIOS,             \* the platform test of downloadMedia
    downloads,         \* the downloadMedia calls started so far
    clipboard,         \* the system clipboard: Null or the text written last
    copies             \* the copyToClipboard calls started so far

vars ==
    <<elements, toast, toastTimer, currentVideoData, abortController,
      debounceTimer, timers, requests, result, console, isIOS, downloads,
      clipboard, copies>>

Lookups == 1..MaxLookups
DownloadIds == 1..MaxDownloads
\* identifiers of timers; one that has fired or was cleared is free again
TimerIds == 1..MaxTimers
CopyIds == 1..MaxCopies

\* stages in which the request of a lookup is issued and not settled
Pending == {"fetch", "json"}
\* stages in which the rejection of an aborted request awaits its microtask
Aborted == {"abortedFetch", "abortedJson"}

Started == {id \in Lookups : requests[id] # "none"}
Active == {id \in Lookups : requests[id] \in Pending}
LastStarted == Cardinality(Started)
NoMicrotask == \A id \in Lookups : requests[id] \notin Aborted

\* opened counts the times the raw URL was opened in a new context
\* burst: the timer was set while the timer before it was still waiting
NoTimer == [state |-> "none", text |-> <<>>, burst |-> FALSE]
\* states of a timer that is set and has neither fired nor been cleared
Set == {"waiting", "due"}

\* original: the text of the label that the call found and will restore
NoCopy == [stage |-> "none", text |-> Null, original |-> Null]

NoDownload == [stage |-> "none", url |-> Null, effect |-> "none", opened |-> 0]

Init ==
    /\ elements =
         [value |-> <<>>, error |-> FALSE, disabled |-> FALSE, result |-> FALSE,
          videoOptions |-> FALSE, photoGallery |-> FALSE, videoTitle |-> Str(<<>>),
          videoAuthor |-> Str(<<>>), contentType |-> Str(<<>>), href |-> Str(<<>>),
          previewModal |-> FALSE, previewSource |-> Str(<<>>), previewShows |-> "video",
          imagePreview |-> Null, copyLabel |-> CopyLabel, copied |-> FALSE]
    /\ toast = [message |-> Str(<<>>), error |-> FALSE, active |-> FALSE]
    /\ toastTimer = FALSE
    /\ currentVideoData = Null
    /\ abortController = 0
    /\ debounceTimer = 0
    /\ timers = [t \in TimerIds |-> NoTimer]
    /\ requests = [id \in Lookups |-> "none"]
    /\ result = Null
    /\ console = <<>>
    /\ isIOS \in BOOLEAN
    /\ downloads = [d \in DownloadIds |-> NoDownload]
    /\ clipboard = Null
    /\ copies = [c \in CopyIds |-> NoCopy]

(***************************************************************************)
(* The small helpers at the end of the script.                             *)
(***************************************************************************)
\* console.error is a sink the program never reads: console holds the calls
\* of the latest task, and a task that logs nothing leaves it empty
NoLog == console' = <<>>

\* showToast(message, isError): the pending timer is replaced
showToast(message, isErr) ==
    /\ toast' = [message |-> message, error |-> isErr, active |-> TRUE]
    /\ toastTimer' = TRUE

\* the callback of the timer of showToast
ToastExpire ==
    /\ NoMicrotask
    /\ toastTimer
    /\ toast' = [toast EXCEPT !.active = FALSE]
    /\ toastTimer' = FALSE
    /\ UNCHANGED <<elements, currentVideoData, abortController, debounceTimer, timers,
                   requests, result, isIOS, downloads, clipboard, copies>> /\ NoLog

\* showError(message), on the elements el
showError(el, message) ==
    /\ elements' = [el EXCEPT !.error = TRUE]
    /\ showToast(message, TRUE)

hideError(el) == [el EXCEPT !.error = FALSE]
hideResult(el) == [el EXCEPT !.result = FALSE]
\* setLoading, were the loading state only ever switched on
setLoadingNeverOff(el, isLoading) == [el EXCEPT !.disabled = el.disabled \/ isLoading]

\* setLoading(isLoading): the button is disabled and carries the class loading
\* together
setLoading(el, isLoading) == [el EXCEPT !.disabled = isLoading]

(***************************************************************************)
(* displayResult(data), but the assignment to currentVideoData.            *)
(***************************************************************************)
displayResult(el, data) ==
    LET shown == [el EXCEPT !.videoTitle = Or(data.title, Str(<<"TikTok Content">>)),
                            !.videoAuthor = AuthorText(data),
                            !.result = TRUE]
    IN IF Truthy(data.isPhoto)
       THEN [shown EXCEPT
               !.contentType = Str(<<"PHOTO", ToString(Len(data.images.s)), "IMAGES">>),
               !.videoOptions = FALSE,
               !.photoGallery = TRUE]
       ELSE IF Truthy(data.videoUrl)
       THEN [shown EXCEPT !.contentType = Str(<<"VIDEO">>), !.photoGallery = FALSE,
                          !.href = data.videoUrl, !.videoOptions = TRUE]
       ELSE [shown EXCEPT !.contentType = Str(<<"VIDEO">>), !.photoGallery = FALSE,
                          !.videoOptions = FALSE]

(***************************************************************************)
(* handleDownload up to its await.                                         *)
(***************************************************************************)
\* abortController.abort(): the pending request of that lookup is rejected
abort(reqs, ctrl) ==
    IF ctrl \in Lookups /\ reqs[ctrl] \in Pending
    THEN [reqs EXCEPT ![ctrl] = IF reqs[ctrl] = "fetch" THEN "abortedFetch"
                                 ELSE "abortedJson"]
    ELSE reqs

\* handleDownload, were the lookup in flight aborted before the validation
handleDownloadAbortsFirst ==
    LET url == Trim(elements.value) IN
    IF url = <<>>
    THEN /\ showError(elements, MsgEnterUrl)
         /\ requests' = abort(requests, abortController)
         /\ UNCHANGED <<currentVideoData, abortController>>
    ELSE IF ~isValidTikTokUrl(url)
    THEN /\ showError(elements, MsgInvalidUrl)
         /\ requests' = abort(requests, abortController)
         /\ UNCHANGED <<currentVideoData, abortController>>
    ELSE /\ LastStarted < MaxLookups
         /\ requests' = [abort(requests, abortController) EXCEPT ![LastStarted + 1] = "fetch"]
         /\ abortController' = LastStarted + 1
         /\ elements' = setLoading(hideResult(hideError(elements)), TRUE)
         /\ UNCHANGED <<toast, toastTimer, currentVideoData>>

handleDownload ==
    LET url == Trim(elements.value) IN
    IF url = <<>>
    THEN /\ showError(elements, MsgEnterUrl)
         /\ UNCHANGED <<currentVideoData, abortController, requests>>
    ELSE IF ~isValidTikTokUrl(url)
    THEN /\ showError(elements, MsgInvalidUrl)
         /\ UNCHANGED <<currentVideoData, abortController, requests>>
    ELSE /\ LastStarted < MaxLookups
         /\ requests' = [abort(requests, abortController) EXCEPT ![LastStarted + 1] = "fetch"]
         /\ abortController' = LastStarted + 1
         /\ elements' = setLoading(hideResult(hideError(elements)), TRUE)
         /\ UNCHANGED <<toast, toastTimer, currentVideoData>>

(***************************************************************************)
(* handleDownload after its await: the request of lookup id has settled    *)
(* with the network event ev.  fetchTikTokData runs to its end, then the   *)
(* try, catch and finally of handleDownload.                               *)
(***************************************************************************)
LogEntry(label, error) == [label |-> label, error |-> error]

Settle(id, ev) ==
    LET t == TryBlock(ev)
        r == fetchTikTokData(ev)
        apiLog == IF t.thrown THEN <<LogEntry("API Error:", t.error)>> ELSE <<>>
    IN /\ requests' = [requests EXCEPT ![id] = "done"]
       /\ IF ~r.thrown
          THEN /\ currentVideoData' = r.value
               /\ elements' = setLoading(displayResult(elements, r.value), FALSE)
               /\ UNCHANGED <<toast, toastTimer>> /\ NoLog
          ELSE IF r.error.name = "AbortError"
          THEN /\ elements' = setLoading(elements, FALSE)
               /\ console' = apiLog
               /\ UNCHANGED <<toast, toastTimer, currentVideoData>>
          ELSE /\ showError(setLoading(elements, FALSE),
                            Or(r.error.message, MsgErrorOccurred))
               /\ console' = apiLog \o <<LogEntry("Download error:", r.error)>>
               /\ UNCHANGED currentVideoData
       /\ abortController' = 0
       /\ result' = IF ev.kind = "json" THEN ev.body ELSE result
       /\ UNCHANGED <<debounceTimer, timers, isIOS, downloads, clipboard, copies>>

\* fetch rejects: the network failed
FetchRejects(id) ==
    /\ NoMicrotask
    /\ requests[id] = "fetch"
    /\ Settle(id, FetchRejected(NetworkError))

\* fetch resolves with a response; response.ok decides
FetchResolves(id, ok) ==
    /\ NoMicrotask
    /\ requests[id] = "fetch"
    /\ IF ok
       THEN /\ requests' = [requests EXCEPT ![id] = "json"]
            /\ UNCHANGED <<elements, toast, toastTimer, currentVideoData,
                           abortController, debounceTimer, timers, result, isIOS, downloads, clipboard, copies>> /\ NoLog
       ELSE Settle(id, HttpNotOk)

\* response.json() rejects: the body is no JSON
JsonRejects(id) ==
    /\ NoMicrotask
    /\ requests[id] = "json"
    /\ Settle(id, JsonRejected(JsonSyntaxError))

\* response.json() resolves with body
JsonResolves(id, body) ==
    /\ NoMicrotask
    /\ requests[id] = "json"
    /\ Settle(id, JsonBody(body))

\* the microtask of an aborted request: its promise rejects with AbortError
AbortSettles(id) ==
    /\ requests[id] \in Aborted
    /\ Settle(id, IF requests[id] = "abortedFetch" THEN FetchRejected(AbortError)
                  ELSE JsonRejected(AbortError))

(***************************************************************************)
(* The event handlers of the URL input and the download button.            *)
(***************************************************************************)
\* click on downloadBtn; a disabled button fires no click
ClickDownload ==
    /\ NoMicrotask
    /\ ~elements.disabled
    /\ handleDownload
    /\ UNCHANGED <<debounceTimer, timers, result, isIOS, downloads, clipboard, copies>> /\ NoLog

\* handleKeyPress with e.key = 'Enter'
KeyPressEnter ==
    /\ NoMicrotask
    /\ handleDownload
    /\ UNCHANGED <<debounceTimer, timers, result, isIOS, downloads, clipboard, copies>> /\ NoLog

\* handleInputChange: the user edits the field to v
handleInputChange(v) ==
    /\ NoMicrotask
    /\ v # elements.value
    /\ elements' = IF elements.error THEN hideError([elements EXCEPT !.value = v])
                   ELSE [elements EXCEPT !.value = v]
    /\ UNCHANGED <<toast, toastTimer, currentVideoData, abortController,
                   debounceTimer, timers, requests, result, isIOS, downloads, clipboard, copies>> /\ NoLog

\* clearTimeout(t): a timer that has fired or was cleared is left alone
clearTimeout(ts, t) ==
    IF t \in TimerIds /\ ts[t].state \in Set THEN [ts EXCEPT ![t] = NoTimer] ELSE ts

\* setTimeout of handlePaste: the timer t starts to wait for its delay
setTimeout(ts, t, text, burst) ==
    [ts EXCEPT ![t] = [state |-> "waiting", text |-> text, burst |-> burst]]

FreeTimers(ts) == {t \in TimerIds : ts[t].state \notin Set}

\* the input event that follows a paste in the same task
pasteInput(text) ==
    elements' = IF elements.error /\ text # elements.value
                THEN hideError([elements EXCEPT !.value = text])
                ELSE [elements EXCEPT !.value = text]

\* handlePaste, were the timer of the paste before left to run
handlePasteKeepsTimer(text) ==
    /\ NoMicrotask
    /\ FreeTimers(timers) # {}
    /\ LET t == CHOOSE x \in FreeTimers(timers) : \A y \in FreeTimers(timers) : x <= y
           burst == debounceTimer # 0 /\ timers[debounceTimer].state = "waiting"
       IN /\ timers' = setTimeout(timers, t, text, burst)
          /\ debounceTimer' = t
    /\ pasteInput(text)
    /\ UNCHANGED <<toast, toastTimer, currentVideoData, abortController,
                   requests, result, isIOS, downloads, clipboard, copies>> /\ NoLog

\* handlePaste: text is pasted over the content of the field; the input
\* event of the insertion follows in the same task
handlePaste(text) ==
    /\ NoMicrotask
    /\ LET cleared == clearTimeout(timers, debounceTimer)
           t == CHOOSE x \in FreeTimers(cleared) : \A y \in FreeTimers(cleared) : x <= y
           burst == debounceTimer # 0 /\ timers[debounceTimer].state = "waiting"
       IN /\ FreeTimers(cleared) # {}
          /\ timers' = setTimeout(cleared, t, text, burst)
          /\ debounceTimer' = t
    /\ pasteInput(text)
    /\ UNCHANGED <<toast, toastTimer, currentVideoData, abortController,
                   requests, result, isIOS, downloads, clipboard, copies>> /\ NoLog

\* the delay of 500 ms of the timer t has passed
DelayElapses(t) ==
    /\ NoMicrotask
    /\ timers[t].state = "waiting"
    /\ timers' = [timers EXCEPT ![t].state = "due"]
    /\ UNCHANGED <<elements, toast, toastTimer, currentVideoData, abortController,
                   debounceTimer, requests, result, isIOS, downloads, clipboard, copies>> /\ NoLog

\* the callback of the timer t of handlePaste.  Outside the paste event the
\* clipboardData of the event may read as the pasted text or as ''.
DebounceFires(t, readable) ==
    /\ NoMicrotask
    /\ timers[t].state = "due"
    /\ timers' = [timers EXCEPT ![t].state = "fired", ![t].text = <<>>]
    /\ LET pastedText == IF readable THEN timers[t].text ELSE <<>> IN
       IF pastedText # <<>> /\ isValidTikTokUrl(Trim(pastedText))
       THEN handleDownload
       ELSE UNCHANGED <<elements, toast, toastTimer, currentVideoData,
                        abortController, requests>>
    /\ UNCHANGED <<debounceTimer, result, isIOS, downloads, clipboard, copies>> /\ NoLog

(***************************************************************************)
(* handleVideoDownload and downloadMedia.                                  *)
(***************************************************************************)
FreeDownloads == {d \in DownloadIds : downloads[d].stage = "none"}

\* currentVideoData?.videoUrl, were the link read from the download anchor
currentVideoUrlOfAnchor == elements.href

\* currentVideoData?.videoUrl
currentVideoUrl ==
    IF currentVideoData = Null THEN Undefined ELSE currentVideoData.videoUrl

\* handleVideoDownload, and downloadMedia up to its await of fetch(url)
handleVideoDownload ==
    /\ NoMicrotask
    /\ Truthy(currentVideoUrl)
    /\ FreeDownloads # {}
    /\ LET d == CHOOSE x \in FreeDownloads : \A y \in FreeDownloads : x <= y IN
       downloads' = [downloads EXCEPT ![d] =
                       [stage |-> "fetch", url |-> currentVideoUrl,
                        effect |-> "none", opened |-> 0]]
    /\ showToast(MsgStartingDownload, FALSE)
    /\ UNCHANGED <<elements, currentVideoData, abortController, debounceTimer, timers,
                   requests, result, isIOS, clipboard, copies>> /\ NoLog

\* the catch block of downloadMedia, were the iOS message given to showError
downloadCatchShowsError(d, error) ==
    /\ console' = <<LogEntry("Download error:", error)>>
    /\ IF isIOS
       THEN /\ showError(elements, MsgIOSLongPress)
            /\ downloads' = [downloads EXCEPT ![d].stage = "done",
                                              ![d].effect = "windowOpen",
                                              ![d].opened = @ + 1]
       ELSE /\ downloads' = [downloads EXCEPT ![d].stage = "done",
                                              ![d].effect = "rawAnchor",
                                              ![d].opened = @ + 1]
            /\ UNCHANGED <<elements, toast, toastTimer>>
    /\ UNCHANGED <<currentVideoData, abortController, debounceTimer, timers,
                   requests, result, isIOS, clipboard, copies>>

\* the catch block of downloadMedia: window.open(url, '_blank') on iOS, else
\* the click of an anchor of the raw URL with target _blank
downloadCatch(d, error) ==
    /\ console' = <<LogEntry("Download error:", error)>>
    /\ IF isIOS
       THEN /\ showToast(MsgIOSLongPress, TRUE)
            /\ downloads' = [downloads EXCEPT ![d].stage = "done",
                                              ![d].effect = "windowOpen",
                                              ![d].opened = @ + 1]
       ELSE /\ downloads' = [downloads EXCEPT ![d].stage = "done",
                                              ![d].effect = "rawAnchor",
                                              ![d].opened = @ + 1]
            /\ UNCHANGED <<toast, toastTimer>>
    /\ UNCHANGED <<elements, currentVideoData, abortController, debounceTimer, timers,
                   requests, result, isIOS, clipboard, copies>>

\* fetch(url) rejects
MediaFetchRejects(d) ==
    /\ NoMicrotask
    /\ downloads[d].stage = "fetch"
    /\ downloadCatch(d, NetworkError)

\* fetch(url) resolves with a response; response.ok decides
MediaFetchResolves(d, ok) ==
    /\ NoMicrotask
    /\ downloads[d].stage = "fetch"
    /\ IF ok
       THEN /\ downloads' = [downloads EXCEPT ![d].stage = "blob"]
            /\ UNCHANGED <<elements, toast, toastTimer, currentVideoData,
                           abortController, debounceTimer, timers, requests, result, isIOS, clipboard, copies>> /\ NoLog
       ELSE downloadCatch(d, NewError(MsgDownloadFailed))

\* response.blob() rejects
BlobRejects(d) ==
    /\ NoMicrotask
    /\ downloads[d].stage = "blob"
    /\ downloadCatch(d, NetworkError)

\* response.blob() resolves: the blob URL is made and its anchor clicked
BlobResolves(d) ==
    /\ NoMicrotask
    /\ downloads[d].stage = "blob"
    /\ downloads' = [downloads EXCEPT ![d].stage = "done", ![d].effect = "blobAnchor"]
    /\ showToast(MsgDownloadStarted, FALSE)
    /\ UNCHANGED <<elements, currentVideoData, abortController, debounceTimer, timers,
                   requests, result, isIOS, clipboard, copies>> /\ NoLog

(***************************************************************************)
(* The preview modal: handlePreviewClick, the click on an item of the      *)
(* photo grid, and closePreview by its button, the backdrop or Escape.     *)
(***************************************************************************)
openPreview(el, videoUrl) ==
    [el EXCEPT !.previewSource = videoUrl, !.previewShows = "video",
               !.previewModal = TRUE]

openPhotoPreview(el, imageUrl) ==
    [el EXCEPT !.imagePreview = imageUrl, !.previewShows = "image",
               !.previewModal = TRUE]

handlePreviewClick ==
    /\ NoMicrotask
    /\ Truthy(currentVideoUrl)
    /\ elements' = openPreview(elements, currentVideoUrl)
    /\ UNCHANGED <<toast, toastTimer, currentVideoData, abortController,
                   debounceTimer, timers, requests, result, isIOS, downloads,
                   clipboard, copies>> /\ NoLog

\* the click listener of item i of the grid displayPhotoGallery has built;
\* the grid is on display while the photo gallery of a result is
PhotoItemClick(i) ==
    /\ NoMicrotask
    /\ elements.result /\ elements.photoGallery
    /\ currentVideoData # Null /\ Truthy(currentVideoData.isPhoto)
    /\ i \in 1..Len(currentVideoData.images.s)
    /\ elements' = openPhotoPreview(elements, Str(<<currentVideoData.images.s[i]>>))
    /\ UNCHANGED <<toast, toastTimer, currentVideoData, abortController,
                   debounceTimer, timers, requests, result, isIOS, downloads,
                   clipboard, copies>> /\ NoLog

\* closePreview, reached while the modal is active
closePreview ==
    /\ NoMicrotask
    /\ elements.previewModal
    /\ elements' = [elements EXCEPT !.previewModal = FALSE, !.previewSource = Str(<<>>)]
    /\ UNCHANGED <<toast, toastTimer, currentVideoData, abortController,
                   debounceTimer, timers, requests, result, isIOS, downloads,
                   clipboard, copies>> /\ NoLog

(***************************************************************************)
(* handleCopyClick and copyToClipboard.                                    *)
(***************************************************************************)
FreeCopies == {c \in CopyIds : copies[c].stage = "none"}

\* handleCopyClick, and copyToClipboard up to its await of writeText
handleCopyClick ==
    /\ NoMicrotask
    /\ Truthy(currentVideoUrl)
    /\ FreeCopies # {}
    /\ LET c == CHOOSE x \in FreeCopies : \A y \in FreeCopies : x <= y IN
       copies' = [copies EXCEPT ![c] =
                    [stage |-> "writing", text |-> currentVideoUrl, original |-> Null]]
    /\ UNCHANGED <<elements, toast, toastTimer, currentVideoData, abortController,
                   debounceTimer, timers, requests, result, isIOS, downloads,
                   clipboard>> /\ NoLog

\* writeText resolves: the text is in the clipboard and the button says so
CopyResolves(c) ==
    /\ NoMicrotask
    /\ copies[c].stage = "writing"
    /\ clipboard' = copies[c].text
    /\ copies' = [copies EXCEPT ![c].stage = "copied", ![c].original = elements.copyLabel]
    /\ elements' = [elements EXCEPT !.copyLabel = MsgCopied, !.copied = TRUE]
    /\ showToast(MsgLinkCopied, FALSE)
    /\ UNCHANGED <<currentVideoData, abortController, debounceTimer, timers,
                   requests, result, isIOS, downloads>> /\ NoLog

\* writeText rejects
CopyRejects(c) ==
    /\ NoMicrotask
    /\ copies[c].stage = "writing"
    /\ copies' = [copies EXCEPT ![c].stage = "done"]
    /\ console' = <<LogEntry("Failed to copy:", NotAllowedError)>>
    /\ showToast(MsgCopyFailed, TRUE)
    /\ UNCHANGED <<elements, currentVideoData, abortController, debounceTimer,
                   timers, requests, result, isIOS, downloads, clipboard>>

\* the callback of the timer of copyToClipboard: the label is put back
CopyRestore(c) ==
    /\ NoMicrotask
    /\ copies[c].stage = "copied"
    /\ copies' = [copies EXCEPT ![c].stage = "done"]
    /\ elements' = [elements EXCEPT !.copyLabel = copies[c].original, !.copied = FALSE]
    /\ UNCHANGED <<toast, toastTimer, currentVideoData, abortController,
                   debounceTimer, timers, requests, result, isIOS, downloads,
                   clipboard>> /\ NoLog

(***************************************************************************)
(* The inputs of the model.                                                *)
(***************************************************************************)
UrlShortPadded ==
    <<" ", "v", "m", ".", "t", "i", "k", "t", "o", "k", ".", "c", "o", "m", "/",
      "Z", " ">>
UrlYoutube ==
    <<"y", "o", "u", "t", "u", "b", "e", ".", "c", "o", "m", "/", "w", "a", "t",
      "c", "h", "?", "v", "=", "1">>

\* what the user types into the field, and what the user pastes
Inputs == {<<>>, UrlShortPadded, UrlYoutube}
Pastes == {UrlShortPadded}
\* the edits of Next: the field is emptied or filled with a valid URL (the
\* texts the validator rejects are typed in LookupNext and PasteNext)
Edits == {<<>>, UrlShortPadded}

Foo == Str(<<"f", "o", "o">>)
VideoData == Data(Str(<<"T">>), Author(Foo, Undefined), Undefined,
                  Str(<<"A">>), Str(<<"B">>), Undefined)
PhotoData == Data(Undefined, NoAuthor, Arr(<<"i1", "i2">>),
                  Str(<<"A">>), Undefined, Undefined)
NoLinkData == Data(Str(<<"T">>), Author(Str(<<>>), Str(<<"@", "n">>)), Arr(<<>>),
                   Undefined, Str(<<>>), Undefined)
RateLimited == Str(<<"rate limited">>)

\* the JSON bodies the lookup API answers with
Bodies ==
    {Body(0, Str(<<"success">>), TRUE, VideoData),
     Body(0, Str(<<"success">>), TRUE, PhotoData),
     Body(0, Str(<<"success">>), TRUE, NoLinkData),
     Body(0, Str(<<"success">>), FALSE, EmptyData),
     Body(1, RateLimited, FALSE, EmptyData),
     Body(1, Str(<<>>), FALSE, EmptyData)}

\* the lookup flow by every trigger and the downloads; the preview and the
\* copy of a displayed result are steps of ResultNext
Next ==
    \/ ClickDownload
    \/ KeyPressEnter
    \/ \E v \in Edits : handleInputChange(v)
    \/ \E text \in Pastes : handlePaste(text)
    \/ \E t \in TimerIds : DelayElapses(t)
    \/ \E t \in TimerIds, readable \in BOOLEAN : DebounceFires(t, readable)
    \/ \E id \in Lookups : FetchRejects(id)
    \/ \E id \in Lookups, ok \in BOOLEAN : FetchResolves(id, ok)
    \/ \E id \in Lookups : JsonRejects(id)
    \/ \E id \in Lookups, body \in Bodies : JsonResolves(id, body)
    \/ \E id \in Lookups : AbortSettles(id)
    \/ ToastExpire
    \/ handleVideoDownload
    \/ \E d \in DownloadIds : MediaFetchRejects(d)
    \/ \E d \in DownloadIds, ok \in BOOLEAN : MediaFetchResolves(d, ok)
    \/ \E d \in DownloadIds : BlobRejects(d)
    \/ \E d \in DownloadIds : BlobResolves(d)

Spec == Init /\ [][Next]_vars

(***************************************************************************)
(* The lookup flow alone: submissions by the button and the Enter key and  *)
(* the steps of their requests.                                            *)
(***************************************************************************)
LookupNext ==
    \/ ClickDownload
    \/ KeyPressEnter
    \/ \E v \in Inputs : handleInputChange(v)
    \/ \E id \in Lookups : FetchRejects(id)
    \/ \E id \in Lookups, ok \in BOOLEAN : FetchResolves(id, ok)
    \/ \E id \in Lookups : JsonRejects(id)
    \/ \E id \in Lookups, body \in Bodies : JsonResolves(id, body)
    \/ \E id \in Lookups : AbortSettles(id)
    \/ ToastExpire

LookupSpec == Init /\ [][LookupNext]_vars

(***************************************************************************)
(* The lookup flow in which every issued request settles in the end: the   *)
(* browser settles the promise of every fetch and of every response.json() *)
(* and runs every queued microtask.                                        *)
(***************************************************************************)
\* a step of the request of lookup id
RequestStep(id) ==
    \/ FetchRejects(id)
    \/ \E ok \in BOOLEAN : FetchResolves(id, ok)
    \/ JsonRejects(id)
    \/ \E body \in Bodies : JsonResolves(id, body)
    \/ AbortSettles(id)

FairLookupNext ==
    \/ handleInputChange(UrlShortPadded)
    \/ KeyPressEnter
    \/ ClickDownload
    \/ \E id \in Lookups : RequestStep(id)

FairLookupSpec ==
    Init /\ [][FairLookupNext]_vars /\ \A id \in Lookups : WF_vars(RequestStep(id))

(***************************************************************************)
(* Lookups started by the timer of handlePaste: the user pastes and edits, *)
(* time passes, and the requests of the lookups settle.                    *)
(***************************************************************************)
PasteTexts == {UrlShortPadded, UrlYoutube}

PasteNext ==
    \/ \E text \in PasteTexts : handlePaste(text)
    \/ \E t \in TimerIds : DelayElapses(t)
    \/ \E t \in TimerIds, readable \in BOOLEAN : DebounceFires(t, readable)
    \/ \E v \in Inputs : handleInputChange(v)
    \/ \E id \in Lookups : FetchRejects(id)
    \/ \E id \in Lookups : FetchResolves(id, TRUE)
    \/ \E id \in Lookups : JsonResolves(id, Body(0, Str(<<"success">>), TRUE, VideoData))
    \/ \E id \in Lookups : AbortSettles(id)

PasteSpec == Init /\ [][PasteNext]_vars

(***************************************************************************)
(* Every way to submit the field: the button, the Enter key and the timer  *)
(* of a paste.                                                             *)
(***************************************************************************)
SubmitNext ==
    \/ ClickDownload
    \/ KeyPressEnter
    \/ PasteNext

SubmitSpec == Init /\ [][SubmitNext]_vars

(***************************************************************************)
(* The handlers of a displayed result: lookups of a valid URL by the       *)
(* button, one after the other, that the API answers with a video, a photo *)
(* gallery or a video without a link, and the download, preview and copy   *)
(* of what is displayed.                                                   *)
(***************************************************************************)
ResultBodies ==
    {Body(0, Str(<<"success">>), TRUE, VideoData),
     Body(0, Str(<<"success">>), TRUE, PhotoData),
     Body(0, Str(<<"success">>), TRUE, NoLinkData)}

ResultNext ==
    \/ handleInputChange(UrlShortPadded)
    \/ ClickDownload
    \/ \E id \in Lookups : FetchResolves(id, TRUE)
    \/ \E id \in Lookups, body \in ResultBodies : JsonResolves(id, body)
    \/ handleVideoDownload
    \/ handlePreviewClick
    \/ \E i \in 1..2 : PhotoItemClick(i)
    \/ closePreview
    \/ handleCopyClick
    \/ \E c \in CopyIds : CopyResolves(c)
    \/ \E c \in CopyIds : CopyRejects(c)
    \/ \E c \in CopyIds : CopyRestore(c)

ResultSpec == Init /\ [][ResultNext]_vars

(***************************************************************************)
(* Downloads of a displayed video next to the lookup flow: lookups of a    *)
(* valid URL, answered or failing, and every step of downloadMedia.        *)
(***************************************************************************)
DownloadNext ==
    \/ handleInputChange(UrlShortPadded)
    \/ KeyPressEnter
    \/ \E id \in Lookups : FetchRejects(id)
    \/ \E id \in Lookups, ok \in BOOLEAN : FetchResolves(id, ok)
    \/ \E id \in Lookups : JsonRejects(id)
    \/ \E id \in Lookups, body \in Bodies : JsonResolves(id, body)
    \/ \E id \in Lookups : AbortSettles(id)
    \/ ToastExpire
    \/ handleVideoDownload
    \/ \E d \in DownloadIds : MediaFetchRejects(d)
    \/ \E d \in DownloadIds, ok \in BOOLEAN : MediaFetchResolves(d, ok)
    \/ \E d \in DownloadIds : BlobRejects(d)
    \/ \E d \in DownloadIds : BlobResolves(d)

DownloadSpec == Init /\ [][DownloadNext]_vars

(***************************************************************************)
(* The normalisation of fetchTikTokData and the rendering of displayResult *)
(* over the successful responses of the API: lookups of a valid URL that   *)
(* the API answers with any body of ApiBodies.                             *)
(***************************************************************************)
PlayValues(url) == {Undefined, Str(<<>>), Str(<<url>>)}
ImagesValues == {Undefined, Arr(<<>>), Arr(<<"i1", "i2">>)}
UniqueIds ==
    {Undefined, Str(<<>>), Foo, Str(<<"@", "f", "o", "o">>),
     Str(<<"@", "@", "f", "o", "o">>)}
Nicknames == {Undefined, Str(<<>>), Str(<<"n">>), Str(<<"@", "n">>)}
Authors == {NoAuthor} \cup {Author(uid, nick) : uid \in UniqueIds, nick \in Nicknames}

ApiBodies ==
    {Body(0, Str(<<"success">>), TRUE,
          Data(Str(<<"T">>), Author(Foo, Undefined), images, hd, pl, wm)) :
        images \in ImagesValues, hd \in PlayValues("A"), pl \in PlayValues("B"),
        wm \in PlayValues("C")}
    \cup
    {Body(0, Str(<<"success">>), TRUE,
          Data(Str(<<"T">>), Author(Foo, Undefined), images, Str(<<"A">>),
               Str(<<"B">>), Str(<<"C">>))) :
        images \in {Null, Arr(<<"i1">>)}}
    \cup
    {Body(0, Str(<<"success">>), TRUE,
          Data(Undefined, author, Undefined, Str(<<"A">>), Undefined, Undefined)) :
        author \in Authors}

NormNext ==
    \/ handleInputChange(UrlShortPadded)
    \/ KeyPressEnter
    \/ \E id \in Lookups : FetchResolves(id, TRUE)
    \/ \E id \in Lookups, body \in ApiBodies : JsonResolves(id, body)
    \/ \E id \in Lookups : AbortSettles(id)

NormSpec == Init /\ [][NormNext]_vars

(***************************************************************************)
(* The validator over candidate URLs: a scheme or none, a host and a path. *)
(* The user types a candidate into the field and submits it.               *)
(***************************************************************************)
SchemeHttps ==
    <<"h", "t", "t", "p", "s", ":", "/", "/">>
SchemeHttp ==
    <<"h", "t", "t", "p", ":", "/", "/">>
HostWww ==
    <<"w", "w", "w", ".", "t", "i", "k", "t", "o", "k", ".", "c", "o", "m">>
HostBare ==
    <<"t", "i", "k", "t", "o", "k", ".", "c", "o", "m">>
HostMobile ==
    <<"m", ".", "t", "i", "k", "t", "o", "k", ".", "c", "o", "m">>
HostVm ==
    <<"v", "m", ".", "t", "i", "k", "t", "o", "k", ".", "c", "o", "m">>
HostVt ==
    <<"v", "t", ".", "t", "i", "k", "t", "o", "k", ".", "c", "o", "m">>
HostYoutube ==
    <<"y", "o", "u", "t", "u", "b", "e", ".", "c", "o", "m">>
HostEvil ==
    <<"e", "v", "i", "l", ".", "c", "o", "m">>
HostNotTikTok ==
    <<"n", "o", "t", "t", "i", "k", "t", "o", "k", ".", "c", "o", "m">>
PathVideo ==
    <<"/", "@", "u", "/", "v", "i", "d", "e", "o", "/", "1">>
PathPhoto ==
    <<"/", "@", "u", ".", "x", "-", "y", "/", "p", "h", "o", "t", "o", "/",
    "1", "2">>
PathT ==
    <<"/", "t", "/", "Z", "x">>
PathToken ==
    <<"/", "Z", "x">>
PathTokenDashed ==
    <<"/", "Z", "-", "x", "_", "1">>
PathWatch ==
    <<"/", "w", "a", "t", "c", "h", "?", "v", "=", "1">>
PathQueryShort ==
    <<"/", "?", "r", "=", "v", "m", ".", "t", "i", "k", "t", "o", "k", ".",
    "c", "o", "m", "/", "Z">>
PathQueryPhoto ==
    <<"/", "?", "u", "=", "t", "i", "k", "t", "o", "k", ".", "c", "o", "m",
    "/", "@", "u", "/", "p", "h", "o", "t", "o", "/", "1">>

Schemes == {<<>>, SchemeHttps, SchemeHttp}
\* hosts of the platform that serve the canonical paths, its hosts of short
\* links, and hosts of others
MainHosts == {HostWww, HostBare, HostMobile}
ShortHosts == {HostVm, HostVt}
OtherHosts == {HostYoutube, HostEvil, HostNotTikTok}
MainPaths == {PathVideo, PathPhoto, PathT}
ShortPaths == {PathToken, PathTokenDashed}
OtherPaths == {<<>>, PathWatch, PathVideo, PathT, PathQueryShort, PathQueryPhoto}

UrlSamples ==
    [scheme : Schemes, host : MainHosts, path : MainPaths \cup {<<>>}]
    \cup [scheme : Schemes, host : ShortHosts, path : ShortPaths \cup {<<>>}]
    \cup [scheme : Schemes, host : OtherHosts, path : OtherPaths]

UrlText(u) == u.scheme \o u.host \o u.path

ValidatorNext ==
    \/ \E u \in UrlSamples : handleInputChange(UrlText(u))
    \/ KeyPressEnter
    \/ \E id \in Lookups : AbortSettles(id)

ValidatorSpec == Init /\ [][ValidatorNext]_vars

(***************************************************************************)
(* Properties.                                                             *)
(***************************************************************************)
\* the latest JSON body was a success with data
Success == result # Null /\ result.code = 0 /\ result.hasData

\* lookup id renders a successful response in this step
Renders(id) ==
    \E body \in Bodies : body.code = 0 /\ body.hasData /\ JsonResolves(id, body)

\* lookup id settles in this step
Settles(id) == requests[id] # "done" /\ requests'[id] = "done"

\* C1: a lookup canceled by a newer lookup surfaces no error: the step in
\* which the aborted request of a lookup settles leaves the toast and the
\* error mark of the URL input as they were.
C1_CanceledLookupIsSilent ==
    [][\A id \in Lookups :
          (requests[id] \in Aborted /\ Settles(id))
             => (toast' = toast /\ elements'.error = elements.error)]_vars

\* C2: at most one lookup request is active (issued, not settled and not
\* aborted) at any time.
C2_AtMostOneActiveLookup == Cardinality(Active) <= 1

\* C3: the settlement of a superseded lookup changes no state of the newer
\* lookup: while the lookup whose controller is in abortController is still
\* pending, the settlement of another lookup leaves the download button
\* disabled and abortController in place.
C3_SettlementKeepsNewerLookup ==
    [][\A a \in Lookups :
          (/\ Settles(a)
           /\ abortController \in Lookups \ {a}
           /\ requests[abortController] \in Pending)
             => (elements'.disabled /\ abortController' = abortController)]_vars

\* C4: a response of an older lookup is never rendered after a newer lookup
\* has started: the lookup that renders is the one started last.
C4_OnlyLatestLookupRenders ==
    [][\A id \in Lookups : Renders(id) => id = LastStarted]_vars

\* C5: when the API answers with a non-zero code and a non-empty msg, the
\* error message shown to the user is exactly msg.
C5_ApiMessageShown ==
    [][\A id \in Lookups, body \in Bodies :
          (body.code # 0 /\ Truthy(body.msg) /\ JsonResolves(id, body))
             => (toast'.message = body.msg /\ toast'.active)]_vars

\* after the step the user sees the generic message and nothing of the
\* error e, which the console alone holds
GenericShownFor(e) ==
    /\ toast' = [message |-> MsgUnableToFetch, error |-> TRUE, active |-> TRUE]
    /\ elements'.error
    /\ toast'.message # e.message
    /\ console' = <<LogEntry("API Error:", e),
                    LogEntry("Download error:", NewError(MsgUnableToFetch))>>

\* C6: when a lookup fails by a network error, a malformed JSON body or a
\* success body without data, the message shown is the fixed generic
\* unable-to-fetch text, and the underlying error is only logged.
C6_OtherFailuresShowGenericMessage ==
    [][\A id \in Lookups :
          /\ FetchRejects(id) => GenericShownFor(NetworkError)
          /\ JsonRejects(id) => GenericShownFor(JsonSyntaxError)
          /\ \A body \in Bodies :
                (body.code = 0 /\ ~body.hasData /\ JsonResolves(id, body))
                   => GenericShownFor(NoDataTypeError)]_vars

C6_Witness ==
    /\ toast.message = MsgUnableToFetch
    /\ toast.error
    /\ elements.error
    /\ Len(console) = 2
    /\ console[1] = LogEntry("API Error:", JsonSyntaxError)

\* the images of a response are a non-empty array
HasImages(d) == d.images.t = "array" /\ d.images.s # <<>>

\* C7: for a successful response with a non-empty images array the
\* normalised result has isPhoto = true, the images of the response and no
\* videoUrl, whatever hdplay, play and wmplay hold; otherwise it has no
\* images.  A videoUrl and non-empty images never occur together, and a
\* result with neither is a non-photo result of a response with no playable
\* link.
C7_PhotoExcludesVideo ==
    Success =>
      LET d == result.data
          r == currentVideoData
      IN /\ HasImages(d) =>
              (r.isPhoto = Bool(TRUE) /\ r.images = d.images /\ r.videoUrl = Null)
         /\ ~HasImages(d) => (r.images = Null /\ ~Truthy(r.isPhoto))
         /\ ~(Truthy(r.videoUrl) /\ r.images.s # <<>>)
         /\ (~Truthy(r.videoUrl) /\ r.images.s = <<>>) =>
              (/\ ~Truthy(r.isPhoto)
               /\ ~Truthy(d.hdplay) /\ ~Truthy(d.play) /\ ~Truthy(d.wmplay))

C7_Witness ==
    /\ Success
    /\ HasImages(result.data)
    /\ Truthy(result.data.hdplay)
    /\ currentVideoData.isPhoto = Bool(TRUE)
    /\ currentVideoData.videoUrl = Null

\* C8: for a successful response with empty or absent images the
\* normalised videoUrl is the first non-empty value among hdplay, play and
\* wmplay, in that order, and is absent (falsy) only when all three are
\* empty or absent.
C8_VideoUrlPriority ==
    (Success /\ ~HasImages(result.data)) =>
      LET c == <<result.data.hdplay, result.data.play, result.data.wmplay>>
          filled == {i \in 1..3 : c[i].t = "string" /\ c[i].s # <<>>}
      IN IF filled = {} THEN ~Truthy(currentVideoData.videoUrl)
         ELSE \E i \in filled :
                 /\ \A j \in filled : i <= j
                 /\ currentVideoData.videoUrl = c[i]

C8_Witness ==
    /\ Success
    /\ ~HasImages(result.data)
    /\ result.data.hdplay = Str(<<"A">>)
    /\ result.data.play = Str(<<"B">>)
    /\ currentVideoData.videoUrl = Str(<<"A">>)

\* the name of the author in the response: unique_id, else nickname, else
\* none (the empty sequence)
AuthorName(d) ==
    IF ~d.author.has THEN <<>>
    ELSE IF d.author.unique_id.t = "string" /\ d.author.unique_id.s # <<>>
    THEN d.author.unique_id.s
    ELSE IF d.author.nickname.t = "string" THEN d.author.nickname.s
    ELSE <<>>

AtTikTok == <<"@", "t", "i", "k", "t", "o", "k">>

\* C9 as stated: for every successful response the displayed author starts
\* with exactly one "@".
C9_ExactlyOneLeadingAt ==
    Success =>
      LET shown == elements.videoAuthor.s IN
      /\ Len(shown) >= 1
      /\ shown[1] = "@"
      /\ Len(shown) >= 2 => shown[2] # "@"

\* C9 as amended: for every successful response the displayed author starts
\* with "@"; the program puts one "@" in front of the name (unique_id, else
\* nickname) exactly when the name does not start with "@" already, and a
\* prefixed name is displayed as it is; without a name the normalised and
\* the displayed author are "@tiktok".
C9_AuthorCarriesAt ==
    Success =>
      LET name == AuthorName(result.data)
          shown == elements.videoAuthor.s
      IN /\ Len(shown) >= 1 /\ shown[1] = "@"
         /\ name = <<>> =>
               (currentVideoData.author = Str(AtTikTok) /\ shown = AtTikTok)
         /\ (name # <<>> /\ name[1] = "@") => shown = name
         /\ (name # <<>> /\ name[1] # "@") => shown = <<"@">> \o name

C9_Witness ==
    /\ Success
    /\ AuthorName(result.data) = <<"@", "f", "o", "o">>
    /\ elements.videoAuthor = Str(<<"@", "f", "o", "o">>)
    /\ elements.result

\* C10: on iOS downloadMedia skips the blob path: it issues no fetch of the
\* media URL and makes no blob and no download anchor.
C10_IOSSkipsBlobPath ==
    isIOS =>
      \A d \in DownloadIds :
         /\ downloads[d].stage \notin {"fetch", "blob"}
         /\ downloads[d].effect # "blobAnchor"

\* the media fetch of download d fails in this step: fetch rejects or the
\* response is not ok
MediaFetchFails(d) == MediaFetchRejects(d) \/ MediaFetchResolves(d, FALSE)

\* a step of download d after its start
DownloadStep(d) ==
    \/ MediaFetchFails(d)
    \/ MediaFetchResolves(d, TRUE)
    \/ BlobRejects(d)
    \/ BlobResolves(d)

\* C11: a download never disturbs the lookup flow.  A step in which the media
\* fetch fails ends the download with the raw URL opened in a new context
\* once, a download that has ended takes no further step (no retry), and
\* every step of a download, its start included, leaves the elements of the
\* result view, the error mark of the URL input, the loading state,
\* currentVideoData, abortController and the lookup requests as they were.
C11_DownloadLeavesLookupFlow ==
    [][\A d \in DownloadIds :
          /\ MediaFetchFails(d)
                => /\ downloads'[d].stage = "done"
                   /\ downloads'[d].effect \in {"windowOpen", "rawAnchor"}
                   /\ downloads'[d].opened = 1
                   /\ downloads'[d].url = downloads[d].url
          /\ downloads[d].stage = "done" => downloads'[d] = downloads[d]
          /\ (handleVideoDownload \/ DownloadStep(d))
                => UNCHANGED <<elements, currentVideoData, abortController, requests>>]_vars

\* a download whose media fetch failed has ended with the raw URL opened,
\* while a lookup started after the one it came from is loading
C11_Witness ==
    \E d \in DownloadIds :
        /\ downloads[d].stage = "done"
        /\ downloads[d].opened = 1
        /\ abortController > 1
        /\ requests[abortController] \in Pending
        /\ elements.disabled

\* C12: when every issued request settles in the end, a state in which the
\* request of a lookup is pending is followed by a state in which the loading
\* state is off and the download button enabled, and whenever no lookup
\* request is pending the loading state is off.
C12_LoadingEnds ==
    /\ \A id \in Lookups : (requests[id] \in Pending) ~> ~elements.disabled
    /\ [](Active = {} => ~elements.disabled)

\* two lookups were started, both have settled, and the loading state is off
C12_Witness ==
    /\ requests[1] = "done"
    /\ requests[2] = "done"
    /\ Active = {}
    /\ ~elements.disabled

\* a URL of one of the shapes of the platform: a canonical video, photo or
\* /t/ path on a host of the platform, or a token on a host of short links
CanonicalShape(u) ==
    \/ u.host \in MainHosts /\ u.path \in MainPaths
    \/ u.host \in ShortHosts /\ u.path \in ShortPaths

\* C13: isValidTikTokUrl is true of every URL of a canonical video, photo or
\* short-link shape and false of every other string, URLs of another host
\* that contain such a shape as a substring included.
C13_ValidatorAcceptsOnlyShapes ==
    \A u \in UrlSamples :
        elements.value = UrlText(u) => (isValidTikTokUrl(UrlText(u)) <=> CanonicalShape(u))

\* the trimmed content of the field is empty or fails the validator
Rejected ==
    Trim(elements.value) = <<>> \/ ~isValidTikTokUrl(Trim(elements.value))

\* handleDownload is called in this step: by the button, the Enter key or
\* the timer of a paste whose text passes the validator
Submission ==
    \/ ClickDownload
    \/ KeyPressEnter
    \/ \E t \in TimerIds :
          /\ timers[t].text # <<>>
          /\ isValidTikTokUrl(Trim(timers[t].text))
          /\ DebounceFires(t, TRUE)

\* C14: a submission whose trimmed input is empty or rejected by the
\* validator shows a validation error and issues no request, aborts no lookup
\* in flight and leaves the loading state, abortController and
\* currentVideoData as they were; and a lookup request is only ever issued for
\* an input the validator accepts.
C14_RejectedSubmissionIsLocal ==
    [][/\ (Rejected /\ Submission)
          => /\ elements'.error
             /\ toast' = [message |-> IF Trim(elements.value) = <<>>
                                        THEN MsgEnterUrl ELSE MsgInvalidUrl,
                          error |-> TRUE, active |-> TRUE]
             /\ requests' = requests
             /\ abortController' = abortController
             /\ currentVideoData' = currentVideoData
             /\ elements'.disabled = elements.disabled
       /\ (\E id \in Lookups : requests[id] = "none" /\ requests'[id] # "none")
          => ~Rejected]_vars

\* the error of the validator is shown for a rejected input while the
\* request of a lookup is in flight and the loading state on
C14_Witness ==
    /\ Rejected
    /\ elements.error
    /\ toast.message \in {MsgEnterUrl, MsgInvalidUrl}
    /\ abortController # 0
    /\ requests[abortController] \in Pending
    /\ elements.disabled

\* C15: the presentation is in one of Idle, Loading, Result and Error: the
\* result panel and the error mark of the URL input are never active
\* together, and the result panel is never active while the loading state
\* is on.
C15_OnePresentationState ==
    /\ ~(elements.result /\ elements.error)
    /\ ~(elements.result /\ elements.disabled)

\* a successful response without images and without a playable link
NoLinkBody(body) ==
    /\ body.code = 0 /\ body.hasData
    /\ ~HasImages(body.data)
    /\ ~Truthy(body.data.hdplay) /\ ~Truthy(body.data.play) /\ ~Truthy(body.data.wmplay)

\* the current result is a video without a link
NoLinkCurrent ==
    /\ currentVideoData # Null
    /\ ~Truthy(currentVideoData.isPhoto)
    /\ ~Truthy(currentVideoData.videoUrl)

\* C16: a successful lookup of a video without a playable link ends in the
\* result and in no error: its step shows the result panel with the video
\* options hidden, surfaces no error and logs none; and while such a result
\* is current no step starts a download, opens the preview or starts a write
\* to the clipboard.
C16_NoLinkResultIsInert ==
    [][/\ \A id \in Lookups, body \in ResultBodies :
            (NoLinkBody(body) /\ JsonResolves(id, body))
               => /\ NoLinkCurrent'
                  /\ elements'.result
                  /\ ~elements'.videoOptions
                  /\ elements'.error = elements.error
                  /\ toast' = toast
                  /\ console' = <<>>
       /\ NoLinkCurrent
            => /\ \A d \in DownloadIds :
                    downloads[d].stage = "none" => downloads'[d].stage = "none"
               /\ elements'.previewModal => elements.previewModal
               /\ elements'.previewSource \in {elements.previewSource, Str(<<>>)}
               /\ \A c \in CopyIds : copies[c].stage = "none" => copies'[c].stage = "none"]_vars

\* a video without a link is displayed after a video with one: the anchor
\* still holds the link of the earlier result, and a download and a copy
\* are still free to start
C16_Witness ==
    /\ NoLinkCurrent
    /\ elements.result
    /\ ~elements.videoOptions
    /\ ~elements.error
    /\ Truthy(elements.href)
    /\ FreeDownloads # {}
    /\ FreeCopies # {}
    /\ ~elements.previewModal

\* C17: lookups by paste are debounced.  At most one timer of handlePaste is
\* set at a time, so a burst of pastes leaves one timer; a timer that fires
\* is the timer of the latest paste and its delay of 500 ms has passed, the
\* timers of the pastes before it having been cleared; and its step starts at
\* most one lookup, and one only if the text of that paste passes the
\* validator.
C17_PasteDebounced ==
    /\ [](Cardinality({t \in TimerIds : timers[t].state \in Set}) <= 1)
    /\ [][\A t \in TimerIds :
            (\E readable \in BOOLEAN : DebounceFires(t, readable))
               => /\ t = debounceTimer
                  /\ timers[t].state = "due"
                  /\ Cardinality(Started') <= Cardinality(Started) + 1
                  /\ Started' # Started
                        => /\ timers[t].text # <<>>
                           /\ isValidTikTokUrl(Trim(timers[t].text))]_vars

\* after a burst of pastes the timer of the last one has fired and started
\* the only lookup
C17_Witness ==
    \E t \in TimerIds :
        /\ timers[t].state = "fired"
        /\ timers[t].burst
        /\ Started = {1}
        /\ requests[1] = "fetch"

====
